---- MODULE Spec2Model ----
(***************************************************************************)
(* The POST /upload route of src/upload-stream.ts with `parse: false`:     *)
(* the handler drives a Pez.Dispenser over the raw request stream,         *)
(* collects the emitted parts, validates them with Joi (partsSchema) and   *)
(* forwards every part to the downstream service with Wreck.request,       *)
(* joined by Promise.all.                                                  *)
(*                                                                         *)
(* One request is followed from its arrival to its response and beyond     *)
(* (forwarding calls may still settle after the response was produced).    *)
(* File names are sequences of one-character strings, so that the regular  *)
(* expression of the schema and the percent-encoding of the target are     *)
(* computed character by character.                                        *)
(***************************************************************************)
EXTENDS Integers, Sequences, FiniteSets, TLC

VARIABLES
    contentType,  \* mime of the request's content-type header
    pc,           \* position of the request: received, collecting, forwarding, responded
    dispenser,    \* Pez.Dispenser: none (not created), open, errored, closed
    listeners,    \* listeners currently registered on the dispenser
    body,         \* file parts the dispenser has emitted so far, in body order
    fields,       \* names of the text fields the dispenser has emitted so far
    parts,        \* the handler's `parts` array
    collection,   \* state of the promise awaited as `streams`
    calls,        \* one record per Wreck.request call issued, in issue order
    join,         \* state of the outer Promise.all and the status its rejection carries
    response,     \* the response produced for the request
    connected,    \* the transport still delivers the request stream to the dispenser
    completed     \* indices of the forwarding calls in the order they settled

vars == <<contentType, pc, dispenser, listeners, body, fields, parts,
          collection, calls, join, response, connected, completed>>

(***************************************************************************)
(* The POST /upload route of src/upload-file.ts with `output: 'file'`: the *)
(* framework writes every uploaded file to a temporary file and validates  *)
(* the payload; the handler registers the temporary paths in cleanupQueue  *)
(* under the request id and forwards the files; the server's 'response'    *)
(* listener unlinks the registered paths. Several requests are in flight.  *)
(***************************************************************************)
VARIABLES
    fileStage,     \* per request: received, parsed, forwarding, responded
    filePayload,   \* per request: request.payload, the entries in body order
    fileCalls,     \* per request: the Wreck.request calls issued, in issue order
    fileJoin,      \* per request: state of the outer Promise.all
    fileResponse,  \* per request: the response produced
    cleanupQueue,  \* request id -> registered paths; NoEntry when there is no key
    tmpFiles,      \* temporary files that exist on disk
    unlinks,       \* path -> state of the Fs.promises.unlink started for it
    listener       \* per request: the 'response' listener: idle, cleaning, done

fileVars == <<fileStage, filePayload, fileCalls, fileJoin, fileResponse,
              cleanupQueue, tmpFiles, unlinks, listener>>

(***************************************************************************)
(* The POST /upload route of src/upload-stream.ts with `parse: true`: the  *)
(* framework parses the multipart body into request.payload (files as      *)
(* streams with a `hapi` property, fields as text) and validates it; the   *)
(* handler forwards the entries that carry a file name.                    *)
(***************************************************************************)
VARIABLES
    parsedStage,     \* received, parsed, forwarding, responded
    parsedPayload,   \* request.payload: the entries in body order
    parsedCalls,     \* the Wreck.request calls issued, in issue order
    parsedJoin,      \* state of the outer Promise.all
    parsedResponse   \* the response produced

parsedVars == <<parsedStage, parsedPayload, parsedCalls, parsedJoin, parsedResponse>>

(***************************************************************************)
(* Several requests in the pez handler at once: every invocation of the    *)
(* handler has its own dispenser, `parts` array and promises.              *)
(***************************************************************************)
VARIABLES
    handlers   \* per request: the locals of its invocation of the handler

multiVars == <<handlers>>

allVars == <<vars, fileVars, parsedVars, multiVars>>

\* what a step of one variant leaves alone
pezOnly == <<fileVars, parsedVars, multiVars>>
fileOnly == <<vars, parsedVars, multiVars>>
parsedOnly == <<vars, fileVars, multiVars>>
multiOnly == <<vars, fileVars, parsedVars>>

\* the requests in flight in the file variant, by request.info.id
Requests == {"r1", "r2"}

\* cleanupQueue[id] of an id that is no key of the object: undefined
NoEntry == <<"undefined">>

\* the file variant serves no request
FileIdle ==
    /\ fileStage = [r \in Requests |-> "received"]
    /\ filePayload = [r \in Requests |-> <<>>]
    /\ fileCalls = [r \in Requests |-> <<>>]
    /\ fileJoin = [r \in Requests |-> [state |-> "none", status |-> 0]]
    /\ fileResponse = [r \in Requests |-> [status |-> 0, kind |-> "none", uploaded |-> <<>>]]
    /\ cleanupQueue = [r \in Requests |-> NoEntry]
    /\ tmpFiles = {}
    /\ unlinks = <<>>
    /\ listener = [r \in Requests |-> "idle"]

\* the parsed stream variant serves no request
ParsedIdle ==
    /\ parsedStage = "received"
    /\ parsedPayload = <<>>
    /\ parsedCalls = <<>>
    /\ parsedJoin = [state |-> "none", status |-> 0]
    /\ parsedResponse = [status |-> 0, kind |-> "none", uploaded |-> <<>>]

\* the locals of a handler that has not been entered
NoHandler ==
    [pc |-> "received", dispenser |-> "none", emitted |-> <<>>, parts |-> <<>>,
     collection |-> "none", calls |-> <<>>,
     join |-> [state |-> "none", status |-> 0],
     response |-> [status |-> 0, kind |-> "none", uploaded |-> <<>>]]

\* no request has reached the pez handler
MultiIdle ==
    handlers = [r \in Requests |-> NoHandler]

----------------------------------------------------------------------------
(* Bounds of the model *)

\* the dispenser emits at most this many file parts for one body
MaxParts == 3

\* the same, for each of the requests handled at once
MultiMaxParts == 2

----------------------------------------------------------------------------
(* Inputs *)

ContentTypes == {"multipart/form-data", "application/json"}

\* field names a client may use: the two expected ones and another one
Names == {"background", "profile", "avatar"}

\* names a client may submit as plain text fields
FieldNames == {"background", "profile"}

aJpeg == <<"a", ".", "j", "p", "e", "g">>
bPng == <<"b", ".", "p", "n", "g">>
cTxt == <<"c", ".", "t", "x", "t">>
DPNG == <<"D", ".", "P", "N", "G">>
EmptyName == <<>>

\* file names the parts of a body may carry
FileNames == {aJpeg, bPng, cTxt, DPNG, EmptyName}

\* a part as the dispenser emits it (ContentDisposition: name, filename)
Part(name, filename) == [name |-> name, filename |-> filename]

----------------------------------------------------------------------------
(* Joi: partsSchema *)

EndsWith(s, suffix) ==
    /\ Len(s) >= Len(suffix)
    /\ SubSeq(s, Len(s) - Len(suffix) + 1, Len(s)) = suffix

\* the alternatives of /\.(gif|jpe?g|png)$/
ImageExtensions ==
    { <<".", "g", "i", "f">>,
      <<".", "j", "p", "g">>,
      <<".", "j", "p", "e", "g">>,
      <<".", "p", "n", "g">> }

\* the upper-case letters and their lower-case forms
LowerCase ==
    [c \in {"A", "B", "C", "D", "E", "F", "G", "I", "J", "N", "P", "T", "X"} |->
        CASE c = "A" -> "a" [] c = "B" -> "b" [] c = "C" -> "c" [] c = "D" -> "d"
          [] c = "E" -> "e" [] c = "F" -> "f" [] c = "G" -> "g" [] c = "I" -> "i"
          [] c = "J" -> "j" [] c = "N" -> "n" [] c = "P" -> "p" [] c = "T" -> "t"
          [] c = "X" -> "x"]

\* the file name with every upper-case letter replaced by its lower-case form
ToLower(s) ==
    [i \in 1..Len(s) |-> IF s[i] \in DOMAIN LowerCase THEN LowerCase[s[i]] ELSE s[i]]

FilenameRegexIgnoreCase(filename) ==
    \E e \in ImageExtensions : EndsWith(ToLower(filename), e)

\* /\.(gif|jpe?g|png)$/.test(filename): no `i` flag, anchored at the end only
FilenameRegex(filename) ==
    \E e \in ImageExtensions : EndsWith(filename, e)

FilenameSchemaAllowingAny(filename) ==
    filename # <<>>

\* Joi.string().regex(...).required(): a string, not empty, matching the pattern
FilenameSchema(filename) ==
    /\ filename # <<>>
    /\ FilenameRegex(filename)

\* Joi.any().valid('background', 'profile').required()
ValidNames == {"background", "profile"}

NameSchema(name) ==
    name \in ValidNames

\* Joi.object({ filename, name }).unknown(true)
ItemSchema(part) ==
    /\ FilenameSchema(part.filename)
    /\ NameSchema(part.name)

\* .min(2)
PartsMin == 2
\* .max(2)
PartsMax == 2

partsSchemaWithoutMin(streams) ==
    /\ Len(streams) <= PartsMax
    /\ \A i \in 1..Len(streams) : ItemSchema(streams[i])

\* Joi.assert(streams, partsSchema) does not throw
partsSchema(streams) ==
    /\ Len(streams) >= PartsMin
    /\ Len(streams) <= PartsMax
    /\ \A i \in 1..Len(streams) : ItemSchema(streams[i])

----------------------------------------------------------------------------
(* Route options *)

AllowAnything(mime) ==
    TRUE

\* options.payload.allow
Allow(mime) ==
    mime = "multipart/form-data"

----------------------------------------------------------------------------
(* Forwarding *)

\* characters encodeURIComponent escapes, with their escapes
Escapes ==
    [c \in {" ", "/", "?", "#", "%", "&"} |->
        CASE c = " " -> <<"%", "2", "0">>
          [] c = "/" -> <<"%", "2", "F">>
          [] c = "?" -> <<"%", "3", "F">>
          [] c = "#" -> <<"%", "2", "3">>
          [] c = "%" -> <<"%", "2", "5">>
          [] c = "&" -> <<"%", "2", "6">>]

EncodeNothing(s) ==
    s

RECURSIVE encodeURIComponent(_)
encodeURIComponent(s) ==
    IF s = <<>> THEN <<>>
    ELSE (IF Head(s) \in DOMAIN Escapes THEN Escapes[Head(s)] ELSE <<Head(s)>>)
         \o encodeURIComponent(Tail(s))

FilesBase == "http://localhost:3001/files/"

\* Wreck.request('POST', `http://localhost:3001/files/${encodeURIComponent(filename)}`, ...)
Request(part) ==
    [filename |-> part.filename,
     base |-> FilesBase,
     path |-> encodeURIComponent(part.filename),
     state |-> "pending",
     statusCode |-> 0]

\* how a forwarding call settles: the promise resolves with the downstream
\* response, whatever its status code, or rejects with an error
\* whose status becomes the status of the response
Outcomes ==
    { [state |-> "resolved", statusCode |-> 200],
      [state |-> "resolved", statusCode |-> 500],
      [state |-> "rejected", statusCode |-> 500],
      [state |-> "rejected", statusCode |-> 502] }

IssueOnlyFirst(streams) ==
    [i \in 1..1 |-> Request(streams[i])]

\* streams.map(payload => Promise.all([payload.filename, Wreck.request(...)]))
IssueCalls(streams) ==
    [i \in 1..Len(streams) |-> Request(streams[i])]

NoJoin == [state |-> "none", status |-> 0]

\* Promise.all(promises) as created: an empty array resolves at once
NewPromiseAll(cs) ==
    IF Len(cs) = 0
    THEN [state |-> "resolved", status |-> 0]
    ELSE [state |-> "pending", status |-> 0]

PromiseAllSettled(j, cs, i, o) ==
    LET settled == [cs EXCEPT ![i].state = o.state, ![i].statusCode = o.statusCode]
    IN  IF j.state # "pending" THEN j
        ELSE IF \A k \in 1..Len(settled) : settled[k].state # "pending"
             THEN [state |-> "resolved", status |-> 0]
        ELSE j

PromiseRace(j, cs, i, o) ==
    IF j.state # "pending" THEN j
    ELSE IF o.state = "rejected"
         THEN [state |-> "rejected", status |-> o.statusCode]
    ELSE [state |-> "resolved", status |-> 0]

PromiseAllCheckingStatus(j, cs, i, o) ==
    LET settled == [cs EXCEPT ![i].state = o.state, ![i].statusCode = o.statusCode]
    IN  IF j.state # "pending" THEN j
        ELSE IF o.state = "rejected" \/ o.statusCode >= 400
             THEN [state |-> "rejected", status |-> o.statusCode]
        ELSE IF \A k \in 1..Len(settled) : settled[k].state = "resolved"
             THEN [state |-> "resolved", status |-> 0]
        ELSE j

\* the outer Promise.all after the call at index i has settled with outcome o:
\* it rejects with the first rejection and resolves once every call has resolved
PromiseAll(j, cs, i, o) ==
    LET settled == [cs EXCEPT ![i].state = o.state, ![i].statusCode = o.statusCode]
    IN  IF j.state # "pending" THEN j
        ELSE IF o.state = "rejected"
             THEN [state |-> "rejected", status |-> o.statusCode]
        ELSE IF \A k \in 1..Len(settled) : settled[k].state = "resolved"
             THEN [state |-> "resolved", status |-> 0]
        ELSE j

UploadedByCompletion(cs) ==
    [i \in 1..Len(cs) |-> cs[completed[i]].filename]

UploadedFirstOnly(cs) ==
    [i \in 1..1 |-> cs[i].filename]

\* responses.map(([filename]) => filename): in the order of `streams`
Uploaded(cs) ==
    [i \in 1..Len(cs) |-> cs[i].filename]

----------------------------------------------------------------------------
(* Responses *)

NoResponse == [status |-> 0, kind |-> "none", uploaded |-> <<>>]

ErrorResponse(status) == [status |-> status, kind |-> "error", uploaded |-> <<>>]

\* h.response({ uploaded }).code(201)
Created == 201

UploadedResponse(names) == [status |-> Created, kind |-> "uploaded", uploaded |-> names]

\* Boom.boomify(error, { statusCode: 400 }), and the errors of the dispenser
BadRequest == 400

\* the framework's answer to a mime that options.payload.allow excludes
UnsupportedMediaType == 415

----------------------------------------------------------------------------
(* Initial state: a request has arrived *)

Init ==
    /\ contentType \in ContentTypes
    /\ pc = "received"
    /\ dispenser = "none"
    /\ listeners = {}
    /\ body = <<>>
    /\ fields = {}
    /\ parts = <<>>
    /\ collection = "none"
    /\ calls = <<>>
    /\ join = NoJoin
    /\ response = NoResponse
    /\ connected = TRUE
    /\ completed = <<>>
    /\ FileIdle
    /\ ParsedIdle
    /\ MultiIdle

----------------------------------------------------------------------------
(* The framework, before the handler *)

\* the mime is allowed: the handler is entered. It creates the dispenser,
\* registers its three listeners and pipes the payload into the dispenser.
EnterHandler ==
    /\ pc = "received"
    /\ Allow(contentType)
    /\ pc' = "collecting"
    /\ dispenser' = "open"
    /\ listeners' = {"error", "part", "close"}
    /\ collection' = "pending"
    /\ UNCHANGED <<connected, completed, contentType, body, fields, parts, calls, join, response>>

\* the mime is not allowed: the framework answers, the handler is not called
RejectMime ==
    /\ pc = "received"
    /\ ~Allow(contentType)
    /\ pc' = "responded"
    /\ response' = ErrorResponse(UnsupportedMediaType)
    /\ UNCHANGED <<connected, completed, contentType, dispenser, listeners, body, fields, parts,
                   collection, calls, join>>

----------------------------------------------------------------------------
(* The dispenser's events and the handler's listeners *)

onPartUnshift(ps, part) ==
    <<part>> \o ps

onPartOverwrite(ps, part) ==
    <<part>>

\* onPart: parts.push(part)
onPart(ps, part) ==
    Append(ps, part)

DispenserFedAfterDisconnect == TRUE

\* payload.pipe(dispenser): the dispenser parses what the transport delivers;
\* a request stream cut off before its end is never ended by the pipe, so
\* the dispenser parses no further segment and never reaches the final
\* boundary
DispenserFed == connected

\* the dispenser emits 'part' for a segment that carries a file name
EmitPart(name, filename) ==
    /\ dispenser = "open"
    /\ DispenserFed
    /\ Len(body) < MaxParts
    /\ body' = Append(body, Part(name, filename))
    /\ parts' = IF "part" \in listeners
                THEN onPart(parts, Part(name, filename))
                ELSE parts
    /\ UNCHANGED <<connected, completed, contentType, pc, dispenser, listeners, fields, collection,
                   calls, join, response>>

\* the dispenser emits 'field' for a segment without a file name: the handler
\* registers no listener for it
EmitField(name) ==
    /\ dispenser = "open"
    /\ DispenserFed
    /\ name \notin fields
    /\ fields' = fields \cup {name}
    /\ UNCHANGED <<connected, completed, contentType, pc, dispenser, listeners, body, parts,
                   collection, calls, join, response>>

\* the transport disconnects while the handler is still collecting
Disconnect ==
    /\ pc = "collecting"
    /\ dispenser = "open"
    /\ connected
    /\ connected' = FALSE
    /\ UNCHANGED <<completed, contentType, pc, dispenser, listeners, body, fields,
                   parts, collection, calls, join, response>>

EmitErrorIgnored ==
    /\ dispenser = "open"
    /\ dispenser' = "errored"
    /\ UNCHANGED <<connected, completed, contentType, pc, listeners, collection,
                   body, fields, parts, calls, join, response>>

\* the dispenser emits 'error' (a malformed body, or one cut short); onError,
\* registered with `once`, removes the other two listeners and rejects the
\* collection
EmitError ==
    /\ dispenser = "open"
    /\ dispenser' = "errored"
    /\ IF "error" \in listeners
       THEN /\ listeners' = listeners \ {"error", "close", "part"}
            /\ collection' = IF collection = "pending" THEN "rejected" ELSE collection
       ELSE UNCHANGED <<listeners, collection>>
    /\ UNCHANGED <<connected, completed, contentType, pc, body, fields, parts, calls, join, response>>

\* the dispenser emits 'close'; onClose, registered with `once`, removes the
\* other two listeners and resolves the collection with `parts`
EmitClose ==
    /\ dispenser \in {"open", "errored"}
    /\ DispenserFed
    /\ dispenser' = "closed"
    /\ IF "close" \in listeners
       THEN /\ listeners' = listeners \ {"close", "error", "part"}
            /\ collection' = IF collection = "pending" THEN "resolved" ELSE collection
       ELSE UNCHANGED <<listeners, collection>>
    /\ UNCHANGED <<connected, completed, contentType, pc, body, fields, parts, calls, join, response>>

----------------------------------------------------------------------------
(* The handler after `await` of the collection *)

\* the collection rejected: the handler throws the dispenser's error
CollectionFailed ==
    /\ pc = "collecting"
    /\ collection = "rejected"
    /\ pc' = "responded"
    /\ response' = ErrorResponse(BadRequest)
    /\ UNCHANGED <<connected, completed, contentType, dispenser, listeners, body, fields, parts,
                   collection, calls, join>>

\* Joi.assert throws: Boom.boomify(error, { statusCode: 400 })
ValidationFailed ==
    /\ pc = "collecting"
    /\ collection = "resolved"
    /\ ~partsSchema(parts)
    /\ pc' = "responded"
    /\ response' = ErrorResponse(BadRequest)
    /\ UNCHANGED <<connected, completed, contentType, dispenser, listeners, body, fields, parts,
                   collection, calls, join>>

ForwardOnArrival ==
    /\ pc = "collecting"
    /\ parts # <<>>
    /\ calls' = IssueCalls(parts)
    /\ join' = NewPromiseAll(IssueCalls(parts))
    /\ pc' = "forwarding"
    /\ UNCHANGED <<connected, completed, contentType, dispenser, listeners, body,
                   fields, parts, collection, response>>

\* Joi.assert passes: streams.map issues every Wreck.request before the
\* handler awaits the outer Promise.all
Forward ==
    /\ pc = "collecting"
    /\ collection = "resolved"
    /\ partsSchema(parts)
    /\ calls' = IssueCalls(parts)
    /\ join' = NewPromiseAll(IssueCalls(parts))
    /\ pc' = "forwarding"
    /\ UNCHANGED <<connected, completed, contentType, dispenser, listeners, body, fields, parts,
                   collection, response>>

\* a forwarding call settles, before or after the response
Settle(i, o) ==
    /\ i \in 1..Len(calls)
    /\ calls[i].state = "pending"
    /\ calls' = [calls EXCEPT ![i].state = o.state, ![i].statusCode = o.statusCode]
    /\ join' = PromiseAll(join, calls, i, o)
    /\ completed' = Append(completed, i)
    /\ UNCHANGED <<connected, contentType, pc, dispenser, listeners, body, fields, parts,
                   collection, response>>

\* the outer Promise.all resolved: 201 with the file names
RespondCreated ==
    /\ pc = "forwarding"
    /\ join.state = "resolved"
    /\ pc' = "responded"
    /\ response' = UploadedResponse(Uploaded(calls))
    /\ UNCHANGED <<connected, completed, contentType, dispenser, listeners, body, fields, parts,
                   collection, calls, join>>

RespondFailedWithPartialList ==
    /\ pc = "forwarding"
    /\ join.state = "rejected"
    /\ pc' = "responded"
    /\ response' = [status |-> join.status, kind |-> "uploaded",
                    uploaded |-> Uploaded(SelectSeq(calls, LAMBDA c : c.state = "resolved"))]
    /\ UNCHANGED <<connected, completed, contentType, dispenser, listeners, body,
                   fields, parts, collection, calls, join>>

\* the outer Promise.all rejected: the handler throws the rejection
RespondFailed ==
    /\ pc = "forwarding"
    /\ join.state = "rejected"
    /\ pc' = "responded"
    /\ response' = ErrorResponse(join.status)
    /\ UNCHANGED <<connected, completed, contentType, dispenser, listeners, body, fields, parts,
                   collection, calls, join>>

----------------------------------------------------------------------------

Next ==
    \/ EnterHandler /\ UNCHANGED pezOnly
    \/ RejectMime /\ UNCHANGED pezOnly
    \/ \E name \in Names, filename \in FileNames :
          EmitPart(name, filename) /\ UNCHANGED pezOnly
    \/ \E name \in FieldNames : EmitField(name) /\ UNCHANGED pezOnly
    \/ Disconnect /\ UNCHANGED pezOnly
    \/ EmitError /\ UNCHANGED pezOnly
    \/ EmitClose /\ UNCHANGED pezOnly
    \/ CollectionFailed /\ UNCHANGED pezOnly
    \/ ValidationFailed /\ UNCHANGED pezOnly
    \/ Forward /\ UNCHANGED pezOnly
    \/ \E i \in 1..MaxParts, o \in Outcomes : Settle(i, o) /\ UNCHANGED pezOnly
    \/ RespondCreated /\ UNCHANGED pezOnly
    \/ RespondFailed /\ UNCHANGED pezOnly

Spec == Init /\ [][Next]_allVars

SourceAbortUnnoticed == FALSE

\* payload.pipe(dispenser): the dispenser is a Writable that watches the
\* stream piped into it; when that stream is cut off by the transport the
\* dispenser stops and emits 'error'
SourceAborted == ~connected

\* the steps that are taken whenever they stay possible: the framework and
\* the handler run, a body that is still being delivered reaches its final
\* boundary, a body that was cut off ends in the dispenser's 'error', and
\* every forwarding call settles
Progress ==
    \/ EnterHandler
    \/ RejectMime
    \/ EmitClose
    \/ SourceAborted /\ EmitError
    \/ CollectionFailed
    \/ ValidationFailed
    \/ Forward
    \/ \E i \in 1..MaxParts, o \in Outcomes : Settle(i, o)
    \/ RespondCreated
    \/ RespondFailed

\* the parts of the bodies followed to their response: the two expected
\* names, a file name the schema accepts and one it refuses
FairFileNames == {aJpeg, cTxt}

FairNext ==
    \/ EnterHandler /\ UNCHANGED pezOnly
    \/ RejectMime /\ UNCHANGED pezOnly
    \/ \E name \in ValidNames, filename \in FairFileNames :
          EmitPart(name, filename) /\ UNCHANGED pezOnly
    \/ EmitField("profile") /\ UNCHANGED pezOnly
    \/ Disconnect /\ UNCHANGED pezOnly
    \/ EmitError /\ UNCHANGED pezOnly
    \/ EmitClose /\ UNCHANGED pezOnly
    \/ CollectionFailed /\ UNCHANGED pezOnly
    \/ ValidationFailed /\ UNCHANGED pezOnly
    \/ Forward /\ UNCHANGED pezOnly
    \/ \E i \in 1..MaxParts, o \in Outcomes : Settle(i, o) /\ UNCHANGED pezOnly
    \/ RespondCreated /\ UNCHANGED pezOnly
    \/ RespondFailed /\ UNCHANGED pezOnly

SpecFair ==
    /\ Init
    /\ [][FairNext]_allVars
    /\ WF_allVars(Progress /\ UNCHANGED pezOnly)

----------------------------------------------------------------------------
(* The file variant: inputs *)

\* field names of the entries of a payload
FileFields == {"background", "profile"}

\* file names of the entries of a payload
FileVariantNames == {aJpeg, cTxt, EmptyName}

\* how a forwarding call of the file variant settles: answered, or failed
FileOutcomes == {o \in Outcomes : o.statusCode \in {200, 502}}

\* the temporary file the framework writes for an entry of a request
TmpPath(r, field) == <<r, field>>

\* an entry of request.payload: { filename, path, bytes, headers }
Entry(r, field, filename) ==
    [field |-> field, filename |-> filename, path |-> TmpPath(r, field)]

\* the payloads of a request: one or two entries under distinct fields, in
\* the order of the body
FilePayloads(r) ==
    {<<Entry(r, f, n)>> : f \in FileFields, n \in FileVariantNames}
    \cup
    {<<Entry(r, fg[1], n), Entry(r, fg[2], m)>> :
        fg \in {x \in FileFields \X FileFields : x[1] # x[2]},
        n \in FileVariantNames, m \in FileVariantNames}

----------------------------------------------------------------------------
(* The file variant: validate.payload *)

\* filename: Joi.string().regex(...).empty('').required(): the empty string
\* counts as undefined, which `required` refuses
FileFilenameSchema(filename) ==
    /\ filename # <<>>
    /\ FilenameRegex(filename)

\* Joi.object({ background: ...required(), profile: ...required() }).required()
FilePayloadSchema(payload) ==
    /\ \A f \in FileFields : \E i \in 1..Len(payload) : payload[i].field = f
    /\ \A i \in 1..Len(payload) :
          /\ payload[i].field \in FileFields
          /\ FileFilenameSchema(payload[i].filename)

----------------------------------------------------------------------------
(* The file variant: the handler *)

PathsOfFirstOnly(payload) ==
    [i \in 1..1 |-> payload[i].path]

\* Object.values(payload).map(({ path }) => path)
PathsOf(payload) ==
    [i \in 1..Len(payload) |-> payload[i].path]

\* Object.values(payload).filter(({ filename }) => filename)
WithFilename(payload) ==
    SelectSeq(payload, LAMBDA e : e.filename # <<>>)

\* .map(({ filename, path }) => Promise.all([filename, Wreck.request(...)]))
FileIssueCalls(payload) ==
    [i \in 1..Len(WithFilename(payload)) |->
        [filename |-> WithFilename(payload)[i].filename,
         base |-> FilesBase,
         path |-> encodeURIComponent(WithFilename(payload)[i].filename),
         source |-> WithFilename(payload)[i].path,
         state |-> "pending",
         statusCode |-> 0]]

\* the framework parses the multipart body of a request and writes one
\* temporary file per entry
FileParse(r, payload) ==
    /\ fileStage[r] = "received"
    /\ fileStage' = [fileStage EXCEPT ![r] = "parsed"]
    /\ filePayload' = [filePayload EXCEPT ![r] = payload]
    /\ tmpFiles' = tmpFiles \cup {payload[i].path : i \in 1..Len(payload)}
    /\ UNCHANGED <<fileCalls, fileJoin, fileResponse, cleanupQueue, unlinks, listener>>

\* a file served by the directory handler of GET /{param*}
StaticResponse == [status |-> 200, kind |-> "static", uploaded |-> <<>>]

\* the responses of the requests that never reach the upload handler and
\* for which the framework writes no file: a POST /upload whose mime is not
\* allowed, and a static GET
ResponsesWithoutUpload == {ErrorResponse(UnsupportedMediaType), StaticResponse}

\* the server answers a request that is no multipart upload
FileAnswerWithoutUpload(r, answer) ==
    /\ fileStage[r] = "received"
    /\ fileStage' = [fileStage EXCEPT ![r] = "responded"]
    /\ fileResponse' = [fileResponse EXCEPT ![r] = answer]
    /\ UNCHANGED <<filePayload, fileCalls, fileJoin, cleanupQueue, tmpFiles,
                   unlinks, listener>>

\* validate.payload fails: the framework answers 400, the handler is not called
FileValidationFailed(r) ==
    /\ fileStage[r] = "parsed"
    /\ ~FilePayloadSchema(filePayload[r])
    /\ fileStage' = [fileStage EXCEPT ![r] = "responded"]
    /\ fileResponse' = [fileResponse EXCEPT ![r] = ErrorResponse(BadRequest)]
    /\ UNCHANGED <<filePayload, fileCalls, fileJoin, cleanupQueue, tmpFiles,
                   unlinks, listener>>

\* the handler: cleanupQueue[request.info.id] = paths, then the forwarding
\* calls are issued and the handler awaits the outer Promise.all
FileHandle(r) ==
    /\ fileStage[r] = "parsed"
    /\ FilePayloadSchema(filePayload[r])
    /\ cleanupQueue' = [cleanupQueue EXCEPT ![r] = PathsOf(filePayload[r])]
    /\ fileCalls' = [fileCalls EXCEPT ![r] = FileIssueCalls(filePayload[r])]
    /\ fileJoin' = [fileJoin EXCEPT ![r] = NewPromiseAll(FileIssueCalls(filePayload[r]))]
    /\ fileStage' = [fileStage EXCEPT ![r] = "forwarding"]
    /\ UNCHANGED <<filePayload, fileResponse, tmpFiles, unlinks, listener>>

\* a forwarding call of a request settles
FileSettle(r, i, o) ==
    /\ i \in 1..Len(fileCalls[r])
    /\ fileCalls[r][i].state = "pending"
    /\ fileCalls' = [fileCalls EXCEPT ![r][i].state = o.state,
                                      ![r][i].statusCode = o.statusCode]
    /\ fileJoin' = [fileJoin EXCEPT ![r] = PromiseAll(fileJoin[r], fileCalls[r], i, o)]
    /\ UNCHANGED <<fileStage, filePayload, fileResponse, cleanupQueue, tmpFiles,
                   unlinks, listener>>

\* the outer Promise.all resolved: 201 with the file names
FileRespondCreated(r) ==
    /\ fileStage[r] = "forwarding"
    /\ fileJoin[r].state = "resolved"
    /\ fileStage' = [fileStage EXCEPT ![r] = "responded"]
    /\ fileResponse' = [fileResponse EXCEPT ![r] = UploadedResponse(Uploaded(fileCalls[r]))]
    /\ UNCHANGED <<filePayload, fileCalls, fileJoin, cleanupQueue, tmpFiles,
                   unlinks, listener>>

\* the outer Promise.all rejected: the handler throws the rejection
FileRespondFailed(r) ==
    /\ fileStage[r] = "forwarding"
    /\ fileJoin[r].state = "rejected"
    /\ fileStage' = [fileStage EXCEPT ![r] = "responded"]
    /\ fileResponse' = [fileResponse EXCEPT ![r] = ErrorResponse(fileJoin[r].status)]
    /\ UNCHANGED <<filePayload, fileCalls, fileJoin, cleanupQueue, tmpFiles,
                   unlinks, listener>>

----------------------------------------------------------------------------
(* The file variant: server.events.on('response') *)

ResponseEventBeforeResponse(r) ==
    fileStage[r] \in {"forwarding", "responded"}

\* the server emits 'response' for a request once its response has been sent
ResponseEvent(r) ==
    fileStage[r] = "responded"

ListenerOutcomeUncaught(thrown) ==
    IF thrown THEN "threw" ELSE "done"

\* try { ... } catch (error) { server.log(...) }: whatever is thrown inside
\* the try block is logged, and the listener's promise resolves
ListenerOutcome(thrown) ==
    "done"

QueuedPathsOfAll(r) ==
    UNION {IF cleanupQueue[q] = NoEntry THEN {}
           ELSE {cleanupQueue[q][i] : i \in 1..Len(cleanupQueue[q])} : q \in Requests}

\* the paths whose unlink the listener of a request starts
QueuedPaths(r) ==
    IF cleanupQueue[r] = NoEntry THEN {}
    ELSE {cleanupQueue[r][i] : i \in 1..Len(cleanupQueue[r])}

\* the listener runs: cleanupQueue[requestId].map(Fs.promises.unlink) starts
\* one unlink per registered path; without an entry `.map` throws inside the
\* try block, the error is logged and `finally` deletes the (absent) key
ListenerStart(r) ==
    /\ ResponseEvent(r)
    /\ listener[r] = "idle"
    /\ IF cleanupQueue[r] = NoEntry
       THEN /\ listener' = [listener EXCEPT ![r] = ListenerOutcome(TRUE)]
            /\ UNCHANGED unlinks
       ELSE /\ listener' = [listener EXCEPT ![r] = "cleaning"]
            /\ unlinks' = [p \in DOMAIN unlinks \cup QueuedPaths(r) |->
                              IF p \in QueuedPaths(r) THEN "pending" ELSE unlinks[p]]
    /\ UNCHANGED <<fileStage, filePayload, fileCalls, fileJoin, fileResponse,
                   cleanupQueue, tmpFiles>>

\* an unlink settles: the file is removed, or the unlink fails and the file stays
UnlinkSettle(p, ok) ==
    /\ p \in DOMAIN unlinks
    /\ unlinks[p] = "pending"
    /\ unlinks' = [unlinks EXCEPT ![p] = IF ok THEN "done" ELSE "failed"]
    /\ tmpFiles' = IF ok THEN tmpFiles \ {p} ELSE tmpFiles
    /\ UNCHANGED <<fileStage, filePayload, fileCalls, fileJoin, fileResponse,
                   cleanupQueue, listener>>

\* await Promise.all(unlinks) settles, with every unlink done or with the
\* first failure; `finally` deletes cleanupQueue[requestId]
ListenerFinish(r) ==
    /\ listener[r] = "cleaning"
    /\ \/ \A p \in QueuedPaths(r) : unlinks[p] = "done"
       \/ \E p \in QueuedPaths(r) : unlinks[p] = "failed"
    /\ listener' = [listener EXCEPT ![r] =
            ListenerOutcome(\E p \in QueuedPaths(r) : unlinks[p] = "failed")]
    /\ cleanupQueue' = [cleanupQueue EXCEPT ![r] = NoEntry]
    /\ UNCHANGED <<fileStage, filePayload, fileCalls, fileJoin, fileResponse,
                   tmpFiles, unlinks>>

----------------------------------------------------------------------------
(* The file variant: specification *)

\* the pez variant serves no request
PezIdle ==
    /\ contentType = "multipart/form-data"
    /\ pc = "received"
    /\ dispenser = "none"
    /\ listeners = {}
    /\ body = <<>>
    /\ fields = {}
    /\ parts = <<>>
    /\ collection = "none"
    /\ calls = <<>>
    /\ join = NoJoin
    /\ response = NoResponse
    /\ connected = TRUE
    /\ completed = <<>>

FileInit ==
    /\ FileIdle
    /\ PezIdle
    /\ ParsedIdle
    /\ MultiIdle

FileNext ==
    \/ \E r \in Requests : \E payload \in FilePayloads(r) :
          FileParse(r, payload) /\ UNCHANGED fileOnly
    \/ \E r \in Requests, answer \in ResponsesWithoutUpload :
          FileAnswerWithoutUpload(r, answer) /\ UNCHANGED fileOnly
    \/ \E r \in Requests : FileValidationFailed(r) /\ UNCHANGED fileOnly
    \/ \E r \in Requests : FileHandle(r) /\ UNCHANGED fileOnly
    \/ \E r \in Requests : \E i \in 1..2, o \in FileOutcomes :
          FileSettle(r, i, o) /\ UNCHANGED fileOnly
    \/ \E r \in Requests : FileRespondCreated(r) /\ UNCHANGED fileOnly
    \/ \E r \in Requests : FileRespondFailed(r) /\ UNCHANGED fileOnly
    \/ \E r \in Requests : ListenerStart(r) /\ UNCHANGED fileOnly
    \/ \E r \in Requests, field \in FileFields, ok \in BOOLEAN :
          UnlinkSettle(TmpPath(r, field), ok) /\ UNCHANGED fileOnly
    \/ \E r \in Requests : ListenerFinish(r) /\ UNCHANGED fileOnly

SpecFile == FileInit /\ [][FileNext]_allVars

\* the steps that are taken whenever they stay possible: the framework and
\* the handler run, every forwarding call and every unlink settles, and the
\* 'response' event is delivered to the listener
FileProgress ==
    \E r \in Requests :
        \/ FileValidationFailed(r)
        \/ FileHandle(r)
        \/ \E i \in 1..2, o \in FileOutcomes : FileSettle(r, i, o)
        \/ FileRespondCreated(r)
        \/ FileRespondFailed(r)
        \/ ListenerStart(r)
        \/ \E field \in FileFields, ok \in BOOLEAN : UnlinkSettle(TmpPath(r, field), ok)
        \/ ListenerFinish(r)

SpecFileFair == SpecFile /\ WF_allVars(FileProgress /\ UNCHANGED fileOnly)

----------------------------------------------------------------------------
(* The forwarding step of the pez variant over file names that need escaping *)

spaceGif == <<"a", " ", "b", ".", "g", "i", "f">>
slashJpg == <<"c", "/", "d", ".", "j", "p", "g">>
queryPng == <<"e", "?", "#", "&", "%", ".", "p", "n", "g">>

\* file names of the collected parts
TargetFileNames == {aJpeg, cTxt, spaceGif, slashJpg, queryPng}

\* the collected sets of two parts
TargetStreams ==
    {<<Part(n1, f1), Part(n2, f2)>> :
        n1 \in ValidNames, n2 \in ValidNames,
        f1 \in TargetFileNames, f2 \in TargetFileNames}

\* the dispenser has closed and the collection has resolved with two parts
TargetInit ==
    /\ contentType = "multipart/form-data"
    /\ pc = "collecting"
    /\ dispenser = "closed"
    /\ listeners = {}
    /\ body \in TargetStreams
    /\ fields = {}
    /\ parts = body
    /\ collection = "resolved"
    /\ calls = <<>>
    /\ join = NoJoin
    /\ response = NoResponse
    /\ connected = TRUE
    /\ completed = <<>>
    /\ FileIdle
    /\ ParsedIdle
    /\ MultiIdle

TargetNext ==
    \/ ValidationFailed /\ UNCHANGED pezOnly
    \/ Forward /\ UNCHANGED pezOnly
    \/ \E i \in 1..2, o \in Outcomes : Settle(i, o) /\ UNCHANGED pezOnly
    \/ RespondCreated /\ UNCHANGED pezOnly
    \/ RespondFailed /\ UNCHANGED pezOnly

SpecTarget == TargetInit /\ [][TargetNext]_allVars

----------------------------------------------------------------------------
(* The parsed stream variant: inputs *)

\* file names of the files of a payload
ParsedFileNames == {aJpeg, cTxt, EmptyName}

\* a file of request.payload: a stream with hapi: { filename, headers }
FileEntry(field, filename) ==
    [field |-> field, hapi |-> TRUE, filename |-> filename]

\* a field of request.payload: its value is presented as text
TextEntry(field) ==
    [field |-> field, hapi |-> FALSE, filename |-> <<>>]

\* what a client may submit under a field name
EntriesOf(field) ==
    {FileEntry(field, n) : n \in ParsedFileNames} \cup {TextEntry(field)}

\* the payloads of a request: one to three entries under distinct field
\* names, in the order of the body
ParsedPayloads ==
    UNION {
        {p \in [1..n -> UNION {EntriesOf(f) : f \in Names}] :
            \A i, k \in 1..n : p[i].field = p[k].field => i = k} :
        n \in 1..Cardinality(Names)}

----------------------------------------------------------------------------
(* The parsed stream variant: validate.payload *)

\* filename: Joi.string().regex(...).empty(''): the empty string counts as
\* undefined, and the key is not required
HapiFilenameSchema(filename) ==
    \/ filename = <<>>
    \/ FilenameRegex(filename)

\* Joi.object({ hapi: Joi.object().keys({ filename, headers }).unknown(true)
\* .required() }).unknown(true).required(): a text value is no object
HapiEntrySchema(entry) ==
    /\ entry.hapi
    /\ HapiFilenameSchema(entry.filename)

\* Joi.object({ background, profile }).unknown(true).required(): both keys
\* are required, a key of any other name is accepted whatever its value
ParsedPayloadSchema(payload) ==
    \A f \in ValidNames :
        \E i \in 1..Len(payload) :
            payload[i].field = f /\ HapiEntrySchema(payload[i])

----------------------------------------------------------------------------
(* The parsed stream variant: the handler *)

\* the handler throws anything but a Boom error: the framework answers 500
HandlerThrew == ErrorResponse(500)

\* ({ hapi: { filename } }) => !!filename, applied to the values of the
\* payload: destructuring the `hapi` of a text value throws a TypeError
FilterThrows(payload) ==
    \E i \in 1..Len(payload) : ~payload[i].hapi

\* Object.values(payload).filter(({ hapi: { filename } }) => !!filename)
WithHapiFilename(payload) ==
    SelectSeq(payload, LAMBDA e : e.filename # <<>>)

\* .map(payload => Promise.all([payload.hapi.filename, Wreck.request(...)]))
ParsedIssueCalls(payload) ==
    [i \in 1..Len(WithHapiFilename(payload)) |->
        [filename |-> WithHapiFilename(payload)[i].filename,
         field |-> WithHapiFilename(payload)[i].field,
         base |-> FilesBase,
         path |-> encodeURIComponent(WithHapiFilename(payload)[i].filename),
         state |-> "pending",
         statusCode |-> 0]]

\* the framework parses the multipart body of the request
ParsedParse(payload) ==
    /\ parsedStage = "received"
    /\ parsedStage' = "parsed"
    /\ parsedPayload' = payload
    /\ UNCHANGED <<parsedCalls, parsedJoin, parsedResponse>>

\* validate.payload fails: the framework answers 400, the handler is not called
ParsedValidationFailed ==
    /\ parsedStage = "parsed"
    /\ ~ParsedPayloadSchema(parsedPayload)
    /\ parsedStage' = "responded"
    /\ parsedResponse' = ErrorResponse(BadRequest)
    /\ UNCHANGED <<parsedPayload, parsedCalls, parsedJoin>>

\* the handler: the filter runs over every value before any call is issued;
\* it throws, or the calls are issued and the handler awaits the outer
\* Promise.all
ParsedHandle ==
    /\ parsedStage = "parsed"
    /\ ParsedPayloadSchema(parsedPayload)
    /\ IF FilterThrows(parsedPayload)
       THEN /\ parsedStage' = "responded"
            /\ parsedResponse' = HandlerThrew
            /\ UNCHANGED <<parsedCalls, parsedJoin>>
       ELSE /\ parsedStage' = "forwarding"
            /\ parsedCalls' = ParsedIssueCalls(parsedPayload)
            /\ parsedJoin' = NewPromiseAll(ParsedIssueCalls(parsedPayload))
            /\ UNCHANGED parsedResponse
    /\ UNCHANGED parsedPayload

\* a forwarding call settles, before or after the response
ParsedSettle(i, o) ==
    /\ i \in 1..Len(parsedCalls)
    /\ parsedCalls[i].state = "pending"
    /\ parsedCalls' = [parsedCalls EXCEPT ![i].state = o.state,
                                          ![i].statusCode = o.statusCode]
    /\ parsedJoin' = PromiseAll(parsedJoin, parsedCalls, i, o)
    /\ UNCHANGED <<parsedStage, parsedPayload, parsedResponse>>

\* the outer Promise.all resolved: 201 with the file names
ParsedRespondCreated ==
    /\ parsedStage = "forwarding"
    /\ parsedJoin.state = "resolved"
    /\ parsedStage' = "responded"
    /\ parsedResponse' = UploadedResponse(Uploaded(parsedCalls))
    /\ UNCHANGED <<parsedPayload, parsedCalls, parsedJoin>>

\* the outer Promise.all rejected: the handler throws the rejection
ParsedRespondFailed ==
    /\ parsedStage = "forwarding"
    /\ parsedJoin.state = "rejected"
    /\ parsedStage' = "responded"
    /\ parsedResponse' = ErrorResponse(parsedJoin.status)
    /\ UNCHANGED <<parsedPayload, parsedCalls, parsedJoin>>

----------------------------------------------------------------------------
(* The parsed stream variant: specification *)

ParsedInit ==
    /\ ParsedIdle
    /\ PezIdle
    /\ FileIdle
    /\ MultiIdle

ParsedNext ==
    \/ \E payload \in ParsedPayloads : ParsedParse(payload) /\ UNCHANGED parsedOnly
    \/ ParsedValidationFailed /\ UNCHANGED parsedOnly
    \/ ParsedHandle /\ UNCHANGED parsedOnly
    \/ \E i \in 1..Cardinality(Names), o \in FileOutcomes :
          ParsedSettle(i, o) /\ UNCHANGED parsedOnly
    \/ ParsedRespondCreated /\ UNCHANGED parsedOnly
    \/ ParsedRespondFailed /\ UNCHANGED parsedOnly

SpecParsed == ParsedInit /\ [][ParsedNext]_allVars

----------------------------------------------------------------------------
(* Several requests in the pez handler *)

\* file names of the parts of each request
MultiFileNames ==
    [r \in Requests |-> IF r = "r1" THEN {aJpeg, cTxt} ELSE {bPng, cTxt}]

PushShared(h, r, part) ==
    [q \in Requests |-> [h[q] EXCEPT !.parts = onPart(@, part)]]

\* onPart of the invocation for request r: `parts` is a constant of the
\* promise executor's closure, one array per invocation
Push(h, r, part) ==
    [h EXCEPT ![r].parts = onPart(@, part)]

\* the handler is entered for a request: it creates the request's dispenser
\* and `parts` array and pipes the payload
MultiEnter(r) ==
    /\ handlers[r].pc = "received"
    /\ handlers' = [handlers EXCEPT ![r].pc = "collecting",
                                    ![r].dispenser = "open",
                                    ![r].collection = "pending"]

\* the dispenser of a request emits 'part'
MultiEmitPart(r, name, filename) ==
    /\ handlers[r].dispenser = "open"
    /\ Len(handlers[r].emitted) < MultiMaxParts
    /\ handlers' = Push([handlers EXCEPT ![r].emitted = Append(@, Part(name, filename))],
                        r, Part(name, filename))

\* the dispenser of a request emits 'error': onError rejects the collection
MultiEmitError(r) ==
    /\ handlers[r].dispenser = "open"
    /\ handlers' = [handlers EXCEPT ![r].dispenser = "errored",
                                    ![r].collection = "rejected"]

\* the dispenser of a request emits 'close': onClose resolves the collection
MultiEmitClose(r) ==
    /\ handlers[r].dispenser = "open"
    /\ handlers' = [handlers EXCEPT ![r].dispenser = "closed",
                                    ![r].collection = "resolved"]

\* the collection rejected: the handler throws the dispenser's error
MultiCollectionFailed(r) ==
    /\ handlers[r].pc = "collecting"
    /\ handlers[r].collection = "rejected"
    /\ handlers' = [handlers EXCEPT ![r].pc = "responded",
                                    ![r].response = ErrorResponse(BadRequest)]

\* Joi.assert(streams, partsSchema), then the calls are issued
MultiValidate(r) ==
    /\ handlers[r].pc = "collecting"
    /\ handlers[r].collection = "resolved"
    /\ IF partsSchema(handlers[r].parts)
       THEN handlers' = [handlers EXCEPT
                ![r].pc = "forwarding",
                ![r].calls = IssueCalls(handlers[r].parts),
                ![r].join = NewPromiseAll(IssueCalls(handlers[r].parts))]
       ELSE handlers' = [handlers EXCEPT
                ![r].pc = "responded",
                ![r].response = ErrorResponse(BadRequest)]

\* a forwarding call of a request settles
MultiSettle(r, i, o) ==
    /\ i \in 1..Len(handlers[r].calls)
    /\ handlers[r].calls[i].state = "pending"
    /\ handlers' = [handlers EXCEPT
            ![r].calls[i].state = o.state,
            ![r].calls[i].statusCode = o.statusCode,
            ![r].join = PromiseAll(handlers[r].join, handlers[r].calls, i, o)]

\* the outer Promise.all of a request settled: 201 with the file names, or
\* the rejection is thrown
MultiRespond(r) ==
    /\ handlers[r].pc = "forwarding"
    /\ handlers[r].join.state \in {"resolved", "rejected"}
    /\ handlers' = [handlers EXCEPT
            ![r].pc = "responded",
            ![r].response = IF handlers[r].join.state = "resolved"
                            THEN UploadedResponse(Uploaded(handlers[r].calls))
                            ELSE ErrorResponse(handlers[r].join.status)]

MultiInit ==
    /\ MultiIdle
    /\ PezIdle
    /\ FileIdle
    /\ ParsedIdle

MultiNext ==
    \/ \E r \in Requests : MultiEnter(r) /\ UNCHANGED multiOnly
    \/ \E r \in Requests : \E name \in ValidNames, filename \in MultiFileNames[r] :
          MultiEmitPart(r, name, filename) /\ UNCHANGED multiOnly
    \/ \E r \in Requests : MultiEmitError(r) /\ UNCHANGED multiOnly
    \/ \E r \in Requests : MultiEmitClose(r) /\ UNCHANGED multiOnly
    \/ \E r \in Requests : MultiCollectionFailed(r) /\ UNCHANGED multiOnly
    \/ \E r \in Requests : MultiValidate(r) /\ UNCHANGED multiOnly
    \/ \E r \in Requests : \E i \in 1..MultiMaxParts, o \in FileOutcomes :
          MultiSettle(r, i, o) /\ UNCHANGED multiOnly
    \/ \E r \in Requests : MultiRespond(r) /\ UNCHANGED multiOnly

SpecMulti == MultiInit /\ [][MultiNext]_allVars


----------------------------------------------------------------------------
(* Vocabulary of the properties, stated independently of the schema *)

\* the two parts the route requires
RequiredParts == {"background", "profile"}

\* the image extensions the route accepts, as listed: .gif, .jpg, .jpeg, .png
ListedExtensions ==
    { <<".", "g", "i", "f">>,
      <<".", "j", "p", "g">>,
      <<".", "j", "p", "e", "g">>,
      <<".", "p", "n", "g">> }

HasListedExtension(filename) ==
    \E n \in 1..Len(filename) :
        SubSeq(filename, n, Len(filename)) \in ListedExtensions

NamesOf(ps) == {ps[i].name : i \in 1..Len(ps)}

FileNamesOf(ps) == {ps[i].filename : i \in 1..Len(ps)}

\* the dispenser has finished with the body: nothing more is emitted
BodyComplete == dispenser \in {"closed", "errored"}

\* the body was well formed: the dispenser closed without an error
BodyParsed == dispenser = "closed" /\ collection = "resolved"

Responded == pc = "responded"

NoDownstreamCalls == Len(calls) = 0

SomeCall(state) == \E i \in 1..Len(calls) : calls[i].state = state

----------------------------------------------------------------------------
(* C1 *)

\* the body carries exactly two file parts, named background and profile,
\* each with a listed image extension, and the sink accepts every call
TwoValidParts ==
    /\ BodyParsed
    /\ Len(body) = 2
    /\ NamesOf(body) = RequiredParts
    /\ \A i \in 1..Len(body) : HasListedExtension(body[i].filename)

SinkAccepts ==
    \A i \in 1..Len(calls) : calls[i].state = "resolved" /\ calls[i].statusCode = 200

\* C1: a request with exactly two file parts named background and profile,
\* each with an allowed image extension, the sink accepting every call, gets
\* exactly two forwarding calls, one per file name, and the response 201 with
\* both original file names in `uploaded`.
C1_TwoValidPartsCreated ==
    (TwoValidParts /\ Responded /\ SinkAccepts) =>
        /\ Len(calls) = 2
        /\ \A i \in 1..2 : calls[i].filename = body[i].filename
        /\ response.status = 201
        /\ response.kind = "uploaded"
        /\ Len(response.uploaded) = 2
        /\ \A i \in 1..2 : \E k \in 1..2 : response.uploaded[k] = body[i].filename

C1_Witness ==
    /\ TwoValidParts
    /\ Responded
    /\ SinkAccepts
    /\ body[1].filename # body[2].filename
    /\ response.status = 201

----------------------------------------------------------------------------
(* C2 *)

\* C2: a request whose content type is not multipart/form-data is answered
\* 415, the handler is never entered and no forwarding call is made.
C2_NotMultipartIs415 ==
    contentType # "multipart/form-data" =>
        /\ dispenser = "none"
        /\ collection = "none"
        /\ NoDownstreamCalls
        /\ (Responded => response.status = 415)

C2_Witness ==
    /\ contentType = "application/json"
    /\ Responded
    /\ response.status = 415

----------------------------------------------------------------------------
(* C3 *)

\* exactly one of the two required parts is present among the file parts
OnlyOneRequiredPresent ==
    /\ BodyComplete
    /\ Cardinality(NamesOf(body) \cap RequiredParts) = 1

\* C3: a request in which only one of the two required parts (background,
\* profile) is present is answered 400 and no forwarding call is made.
C3_OnlyOneRequiredIs400 ==
    OnlyOneRequiredPresent =>
        /\ NoDownstreamCalls
        /\ (Responded => response.status = 400)

----------------------------------------------------------------------------
(* C4 *)

\* two correctly named parts, at least one with an extension that is not listed
TwoNamedOneDisallowed ==
    /\ BodyComplete
    /\ Len(body) = 2
    /\ NamesOf(body) \subseteq RequiredParts
    /\ \E i \in 1..Len(body) : ~HasListedExtension(body[i].filename)

\* C4: a request with two correctly named parts of which at least one has a
\* disallowed extension is answered 400 and no forwarding call is made, not
\* even for the other part.
C4_DisallowedExtensionIs400 ==
    TwoNamedOneDisallowed =>
        /\ NoDownstreamCalls
        /\ (Responded => response.status = 400)

C4_Witness ==
    /\ BodyParsed
    /\ Responded
    /\ body = <<Part("background", aJpeg), Part("profile", cTxt)>>
    /\ response.status = 400
    /\ NoDownstreamCalls

----------------------------------------------------------------------------
(* C5 *)

\* the body holds no parts at all: neither a file nor a text field
EmptyBody ==
    /\ BodyComplete
    /\ body = <<>>
    /\ fields = {}

\* C5: a multipart request whose body contains no parts at all is answered
\* 400 and no forwarding call is made.
C5_EmptyBodyIs400 ==
    EmptyBody =>
        /\ NoDownstreamCalls
        /\ (Responded => response.status = 400)

C5_Witness ==
    /\ EmptyBody
    /\ BodyParsed
    /\ parts = <<>>
    /\ Responded
    /\ response.status = 400

----------------------------------------------------------------------------
(* C6 *)

\* a required field came as a text field and not as a file
RequiredFieldAsText ==
    /\ BodyComplete
    /\ \E name \in RequiredParts : name \in fields /\ name \notin NamesOf(body)

\* C6: a request in which a required field is submitted as a plain text
\* field instead of a file is answered 400 and no forwarding call is made.
C6_TextFieldIs400 ==
    RequiredFieldAsText =>
        /\ NoDownstreamCalls
        /\ (Responded => response.status = 400)

----------------------------------------------------------------------------
(* C7 *)

\* C7: when the forwarding call for one of two valid collected parts fails
\* (its promise rejects), both forwarding calls have been issued all the
\* same, and the response is a failure status, never 201.
C7_FailedCallBothIssued ==
    SomeCall("rejected") =>
        /\ Len(parts) = 2
        /\ Len(calls) = 2
        /\ \A i \in 1..2 : calls[i].filename = parts[i].filename
        /\ response.status # 201
        /\ (Responded => response.kind = "error" /\ response.status >= 400)

C7_Witness ==
    /\ Len(calls) = 2
    /\ calls[1].state = "rejected"
    /\ calls[2].state = "resolved"
    /\ calls[2].statusCode = 200
    /\ Responded
    /\ response.status >= 500

----------------------------------------------------------------------------
(* C8 *)

----------------------------------------------------------------------------
(* C9 *)

\* the validation gate accepted the collected parts: forwarding has begun
GateAccepted == pc = "forwarding" \/ ~NoDownstreamCalls

\* C9: the gate accepts a collected set only if it consists of exactly two
\* parts, one named background and the other named profile; two parts with
\* the same field name are rejected.
C9_AcceptedOnlyBothNames ==
    GateAccepted =>
        /\ Len(parts) = 2
        /\ NamesOf(parts) = RequiredParts

----------------------------------------------------------------------------
(* C10 *)

\* a file name whose extension is listed only up to letter case
UpperCaseExtension(filename) ==
    /\ HasListedExtension(ToLower(filename))
    /\ ~HasListedExtension(filename)

\* two correctly named parts, each with a listed extension in some letter case
TwoPartsAnyCase ==
    /\ BodyParsed
    /\ Len(body) = 2
    /\ NamesOf(body) = RequiredParts
    /\ \A i \in 1..Len(body) : HasListedExtension(ToLower(body[i].filename))

\* C10 as stated: a file name with an allowed extension in any letter case
\* is accepted by the gate exactly as its lower-case form is.
C10_CaseInsensitive ==
    (TwoPartsAnyCase /\ Responded) => response.status # 400

\* C10 as amended: validation is case-sensitive. A part whose file name ends
\* in a listed extension written with an upper-case letter is rejected: the
\* request is answered 400 and nothing is forwarded; every forwarded file
\* name ends in a listed extension in lower case.
C10_CaseSensitive ==
    /\ (BodyComplete /\ \E i \in 1..Len(body) : UpperCaseExtension(body[i].filename)) =>
           (NoDownstreamCalls /\ (Responded => response.status = 400))
    /\ \A i \in 1..Len(calls) : HasListedExtension(calls[i].filename)

C10_Witness ==
    /\ BodyParsed
    /\ body = <<Part("background", DPNG), Part("profile", aJpeg)>>
    /\ Responded
    /\ response.status = 400

----------------------------------------------------------------------------
(* C11 .. C20: vocabulary *)

\* a forwarding call was answered by the sink with a non-success status
AnsweredNonSuccess(c) ==
    c.state = "resolved" /\ c.statusCode >= 400

\* every forwarding call of the request was answered by the sink
AllAnswered ==
    /\ calls # <<>>
    /\ \A i \in 1..Len(calls) : calls[i].state = "resolved"

\* the file names of the parts of a body, in the order of the body
FileNameSeq(ps) ==
    [i \in 1..Len(ps) |-> ps[i].filename]

\* the validated parts that have a non-empty file name
NonEmptyParts ==
    SelectSeq(parts, LAMBDA p : p.filename # <<>>)

\* the one-to-one maps of 1..n onto itself
Bijections(n) ==
    {f \in [1..n -> 1..n] : \A i, k \in 1..n : f[i] = f[k] => i = k}

\* the temporary files the framework wrote for a request
TmpFilesOf(r) ==
    {filePayload[r][i].path : i \in 1..Len(filePayload[r])}

\* what decodeURIComponent makes of an escape
Unescapes ==
    [e \in {<<"2", "0">>, <<"2", "F">>, <<"3", "F">>, <<"2", "3">>,
            <<"2", "5">>, <<"2", "6">>} |->
        CASE e = <<"2", "0">> -> " "
          [] e = <<"2", "F">> -> "/"
          [] e = <<"3", "F">> -> "?"
          [] e = <<"2", "3">> -> "#"
          [] e = <<"2", "5">> -> "%"
          [] e = <<"2", "6">> -> "&"]

RECURSIVE PercentDecode(_)
PercentDecode(s) ==
    IF s = <<>> THEN <<>>
    ELSE IF Head(s) = "%" /\ Len(s) >= 3 /\ SubSeq(s, 2, 3) \in DOMAIN Unescapes
         THEN <<Unescapes[SubSeq(s, 2, 3)]>> \o PercentDecode(SubSeq(s, 4, Len(s)))
         ELSE <<Head(s)>> \o PercentDecode(Tail(s))

\* the characters that would end or split the last path segment of a URL
PathDelimiters == {" ", "/", "?", "#", "&"}

----------------------------------------------------------------------------
(* C11 *)

----------------------------------------------------------------------------
(* C12 *)

\* C12 (as stated): in a 201 response the file names appear in the order in
\* which their forwarding calls completed
C12_CompletionOrder ==
    (Responded /\ response.status = Created) =>
        /\ Len(completed) = Len(response.uploaded)
        /\ \A i \in 1..Len(completed) :
              response.uploaded[i] = calls[completed[i]].filename

\* C12 (amended): in a 201 response the file names appear in the order in
\* which their forwarding calls were issued, also when the calls completed in
\* another order
C12_IssueOrder ==
    (Responded /\ response.status = Created) =>
        /\ Len(response.uploaded) = Len(calls)
        /\ \A i \in 1..Len(calls) : response.uploaded[i] = calls[i].filename

C12_Witness ==
    /\ Responded
    /\ response.status = Created
    /\ completed = <<2, 1>>
    /\ calls[1].filename # calls[2].filename
    /\ response.uploaded[1] = calls[1].filename

----------------------------------------------------------------------------
(* C13 *)

\* C13: in a 201 response `uploaded` is the sequence of the file names of the
\* parts in the order of the request body, whatever the order in which the
\* forwarding calls completed
C13_BodyOrder ==
    (Responded /\ response.status = Created) =>
        response.uploaded = FileNameSeq(body)

C13_Witness ==
    /\ Responded
    /\ response.status = Created
    /\ body = <<Part("background", aJpeg), Part("profile", bPng)>>
    /\ completed = <<2, 1>>
    /\ response.uploaded = <<aJpeg, bPng>>

----------------------------------------------------------------------------
(* C14 *)

\* C14: in a 201 response the entries of `uploaded` correspond one to one to
\* the validated parts with a non-empty file name, each entry being the file
\* name of its part
C14_OneToOne ==
    (Responded /\ response.status = Created) =>
        /\ partsSchema(parts)
        /\ Len(response.uploaded) = Len(NonEmptyParts)
        /\ \E f \in Bijections(Len(NonEmptyParts)) :
              \A i \in 1..Len(NonEmptyParts) :
                  response.uploaded[i] = NonEmptyParts[f[i]].filename

C14_Witness ==
    /\ Responded
    /\ response.status = Created
    /\ Len(NonEmptyParts) = 2
    /\ Len(response.uploaded) = 2

----------------------------------------------------------------------------
(* C15 *)

\* C15: a response carries a file list only when every forwarding call of the
\* request succeeded; once a forwarding call has failed the response carries
\* no file name at all
C15_NoPartialList ==
    /\ (Responded /\ response.kind = "uploaded") =>
          /\ Len(calls) = Len(parts)
          /\ \A i \in 1..Len(calls) : calls[i].state = "resolved"
    /\ (Responded /\ SomeCall("rejected")) =>
          /\ response.kind # "uploaded"
          /\ response.uploaded = <<>>

C15_Witness ==
    /\ Responded
    /\ SomeCall("rejected")
    /\ \E i \in 1..Len(calls) :
          calls[i].state = "resolved" /\ calls[i].statusCode = 200

----------------------------------------------------------------------------
(* C16 *)

\* what holds in every state once the dispenser has emitted an error
C16_Rejected ==
    /\ dispenser = "errored" => collection = "rejected"
    /\ collection = "rejected" =>
          /\ NoDownstreamCalls
          /\ join = NoJoin
          /\ pc \in {"collecting", "responded"}
          /\ Responded =>
                /\ response.status = BadRequest
                /\ response.kind = "error"
                /\ response.uploaded = <<>>

\* C16: an error of the dispenser rejects the collection; from then on no
\* step validates or forwards the parts collected so far, the response is
\* 400, and no later event (a 'close' included) resolves the collection
C16_DispenserErrorIs400 ==
    /\ []C16_Rejected
    /\ [][collection = "rejected" => collection' = "rejected"]_allVars

C16_Witness ==
    /\ collection = "rejected"
    /\ Len(parts) = 2
    /\ partsSchema(parts)
    /\ Responded
    /\ response.status = BadRequest

----------------------------------------------------------------------------
(* C17 *)

\* C17: once the transport has disconnected during collection, no forwarding
\* call exists in any later state and the request is never answered 201
C17_DisconnectNoForwarding ==
    ~connected =>
        /\ NoDownstreamCalls
        /\ join = NoJoin
        /\ pc \in {"collecting", "responded"}
        /\ response.status # Created

C17_Witness ==
    /\ ~connected
    /\ Len(parts) = 2
    /\ partsSchema(parts)

----------------------------------------------------------------------------
(* C18 *)

----------------------------------------------------------------------------
(* C19 *)

\* C19: an unlink of a temporary file of a request is started only after the
\* response of that request has been sent: until then the listener of the
\* request has not run and every temporary file of the request exists
C19_CleanupAfterResponse ==
    \A r \in Requests :
        fileStage[r] # "responded" =>
            /\ listener[r] = "idle"
            /\ TmpFilesOf(r) \cap DOMAIN unlinks = {}
            /\ TmpFilesOf(r) \subseteq tmpFiles

C19_Witness ==
    \E r \in Requests :
        /\ fileStage[r] = "responded"
        /\ fileResponse[r].status = Created
        /\ listener[r] = "cleaning"
        /\ \E p \in TmpFilesOf(r) : p \in DOMAIN unlinks /\ unlinks[p] = "pending"

----------------------------------------------------------------------------
(* C20 *)

\* C20: every forwarding call targets the fixed base followed by the
\* percent-encoded file name of its part: the path decodes to the file name
\* and holds no delimiter, and two parts with the same file name get the
\* same target whatever their field names and positions
C20_TargetFromFileName ==
    /\ calls # <<>> => Len(calls) = Len(parts)
    /\ \A i \in 1..Len(calls) :
          /\ calls[i].base = "http://localhost:3001/files/"
          /\ PercentDecode(calls[i].path) = parts[i].filename
          /\ \A k \in 1..Len(calls[i].path) : calls[i].path[k] \notin PathDelimiters
    /\ \A i, k \in 1..Len(calls) :
          parts[i].filename = parts[k].filename =>
              /\ calls[i].base = calls[k].base
              /\ calls[i].path = calls[k].path

C20_Witness ==
    /\ Len(calls) = 2
    /\ parts[1].filename = queryPng
    /\ parts[2].filename = spaceGif
    /\ parts[1].name # parts[2].name
    /\ calls[1].path # queryPng

----------------------------------------------------------------------------
(* C21 .. C30: vocabulary *)

\* the handler of the parsed stream variant was called: validation had passed
ParsedHandlerCalled ==
    /\ parsedStage \in {"forwarding", "responded"}
    /\ ParsedPayloadSchema(parsedPayload)

\* the entries of the payload that carry a non-empty file name
NamedEntries ==
    SelectSeq(parsedPayload, LAMBDA e : e.hapi /\ e.filename # <<>>)

----------------------------------------------------------------------------
(* C21 *)

\* C21: after validation has passed, the forwarding calls are exactly the
\* parts with a non-empty file name, one call for each and none for a part
\* with an empty file name
C21_OneCallPerNamedPart ==
    ParsedHandlerCalled =>
        /\ Len(parsedCalls) = Len(NamedEntries)
        /\ \A i \in 1..Len(parsedCalls) :
              /\ parsedCalls[i].filename = NamedEntries[i].filename
              /\ parsedCalls[i].field = NamedEntries[i].field

----------------------------------------------------------------------------
(* C30 *)

\* C30: in the parsed stream variant every forwarding call is for an entry
\* under background or profile whose file name matches the image pattern,
\* and a non-file field beside them never makes the handler fail
C30_OnlyExpectedFilesForwarded ==
    /\ \A i \in 1..Len(parsedCalls) :
          /\ parsedCalls[i].field \in ValidNames
          /\ FilenameRegex(parsedCalls[i].filename)
    /\ (ParsedHandlerCalled /\ parsedStage = "responded") =>
          parsedResponse # HandlerThrew

----------------------------------------------------------------------------
(* C22 *)

\* C22: the collected parts are the emitted parts in the order of emission:
\* at every moment `parts` is a prefix of the emitted sequence, nothing is
\* missing while the part listener is registered, and a resolved collection
\* holds every part of the body once, in body order
C22_CollectedInBodyOrder ==
    /\ Len(parts) <= Len(body)
    /\ \A i \in 1..Len(parts) : parts[i] = body[i]
    /\ "part" \in listeners => parts = body
    /\ collection = "resolved" => parts = body

C22_Witness ==
    /\ collection = "resolved"
    /\ body = <<Part("background", aJpeg), Part("profile", bPng)>>
    /\ parts[1] = Part("background", aJpeg)
    /\ parts[2] = Part("profile", bPng)
    /\ Len(parts) = 2

----------------------------------------------------------------------------
(* C23 *)

\* what holds whenever a forwarding call exists
C23_ForwardedAfterValidation ==
    (calls # <<>> \/ pc = "forwarding") =>
        /\ dispenser = "closed"
        /\ collection = "resolved"
        /\ parts = body
        /\ partsSchema(parts)

\* C23: the handler leaves the collection step through validation once, with
\* the dispenser closed and every part of the body collected, and never
\* returns to it; calls are issued in that step alone, so a forwarding call
\* exists only after the close and a passed validation
C23_ValidatedOnceAfterClose ==
    /\ []C23_ForwardedAfterValidation
    /\ [][(pc = "collecting" /\ collection = "resolved" /\ pc' # "collecting") =>
              /\ dispenser = "closed"
              /\ parts = body
              /\ (pc' = "forwarding") <=> partsSchema(parts)]_allVars
    /\ [][(pc \in {"forwarding", "responded"}) => pc' # "collecting"]_allVars
    /\ [][(calls' # calls /\ calls = <<>>) =>
              pc = "collecting" /\ pc' = "forwarding"]_allVars

C23_Witness ==
    /\ pc = "forwarding"
    /\ dispenser = "closed"
    /\ Len(calls) = 2
    /\ \A i \in 1..Len(calls) : calls[i].state = "pending"

----------------------------------------------------------------------------
(* C24 *)

----------------------------------------------------------------------------
(* C25 *)

\* what every request's handler holds: parts, calls and file list are those
\* of the parts emitted for this request
C25_OwnState ==
    \A r \in Requests :
        /\ Len(handlers[r].parts) <= Len(handlers[r].emitted)
        /\ \A i \in 1..Len(handlers[r].parts) :
              handlers[r].parts[i] = handlers[r].emitted[i]
        /\ handlers[r].calls # <<>> =>
              /\ partsSchema(handlers[r].emitted)
              /\ Len(handlers[r].calls) = Len(handlers[r].emitted)
              /\ \A i \in 1..Len(handlers[r].calls) :
                    handlers[r].calls[i].filename = handlers[r].emitted[i].filename
        /\ handlers[r].response.status = Created =>
              handlers[r].response.uploaded = FileNameSeq(handlers[r].emitted)

\* C25: with several requests in the handler, each request's parts, calls
\* and file list come from the parts emitted for that request, and an event
\* of one request's dispenser changes nothing of another request
C25_RequestsIsolated ==
    /\ []C25_OwnState
    /\ [][\A r \in Requests, q \in Requests :
            (r # q /\ handlers'[r] # handlers[r]) => handlers'[q] = handlers[q]]_allVars

C25_Witness ==
    /\ handlers["r1"].response.status = Created
    /\ handlers["r1"].response.uploaded = <<aJpeg, aJpeg>>
    /\ handlers["r2"].response.status = Created
    /\ handlers["r2"].response.uploaded = <<bPng, bPng>>

----------------------------------------------------------------------------
(* C26 *)

\* C26: no unlink of a temporary file is started while a forwarding call
\* that reads from the file is still outstanding
C26_NoUnlinkWhileForwarding ==
    \A r \in Requests :
        \A i \in 1..Len(fileCalls[r]) :
            fileCalls[r][i].state = "pending" =>
                fileCalls[r][i].source \notin DOMAIN unlinks

----------------------------------------------------------------------------
(* C27 *)

\* a started unlink of a temporary file of the request has failed
UnlinkFailedFor(r) ==
    \E p \in TmpFilesOf(r) \cap DOMAIN unlinks : unlinks[p] = "failed"

\* C27: after the response of a request, every temporary file the framework
\* wrote for it is eventually removed, unless its unlink fails
C27_EventuallyUnlinked ==
    \A r \in Requests :
        (fileStage[r] = "responded")
            ~> (TmpFilesOf(r) \cap tmpFiles = {} \/ UnlinkFailedFor(r))

----------------------------------------------------------------------------
(* C28 *)

\* what holds of the listener in every state
C28_ListenerState ==
    /\ \A r \in Requests :
          /\ listener[r] # "threw"
          /\ listener[r] = "done" => cleanupQueue[r] = NoEntry
    /\ (\A r \in Requests : fileStage[r] = "responded" /\ listener[r] = "done") =>
          cleanupQueue = [r \in Requests |-> NoEntry]

\* C28: the 'response' listener never ends by throwing and always ends with
\* no entry for its request in cleanupQueue, whether the unlinks succeed,
\* one fails, or the request registered no paths; an entry removed by the
\* listener is never restored, and cleanupQueue is empty once every request
\* has responded and its listener has finished
C28_ListenerAlwaysCleansQueue ==
    /\ []C28_ListenerState
    /\ [][\A r \in Requests :
            listener[r] = "done" =>
                listener'[r] = "done" /\ cleanupQueue'[r] = NoEntry]_allVars

C28_Witness ==
    \E r \in Requests, q \in Requests :
        /\ fileResponse[r].status \in {UnsupportedMediaType, BadRequest, 200}
        /\ listener[r] = "done"
        /\ UnlinkFailedFor(q)
        /\ listener[q] = "done"
        /\ cleanupQueue = [x \in Requests |-> NoEntry]

----------------------------------------------------------------------------
(* C29 *)

\* the handler of the request registered the path
RegisteredBy(r, p) ==
    /\ fileStage[r] \in {"forwarding", "responded"}
    /\ FilePayloadSchema(filePayload[r])
    /\ p \in TmpFilesOf(r)

\* the unlinks that exist are those of the paths registered by the requests
\* whose listener has run
C29_OwnPathsUnlinked ==
    /\ \A p \in DOMAIN unlinks :
          \E r \in Requests : RegisteredBy(r, p) /\ listener[r] # "idle"
    /\ \A r \in Requests :
          \A p \in TmpFilesOf(r) :
              (RegisteredBy(r, p) /\ listener[r] # "idle") => p \in DOMAIN unlinks

\* C29: the listener run for a request starts the unlink of exactly the
\* paths the handler of that request registered, in the step in which it
\* runs, and no unlink is ever started again
C29_CleanupPerRequest ==
    /\ []C29_OwnPathsUnlinked
    /\ [][\A p \in DOMAIN unlinks' :
            IF p \in DOMAIN unlinks
            THEN unlinks[p] # "pending" => unlinks'[p] = unlinks[p]
            ELSE \E r \in Requests :
                    /\ RegisteredBy(r, p)
                    /\ listener[r] = "idle"
                    /\ listener'[r] = "cleaning"]_allVars

C29_Witness ==
    /\ listener["r1"] = "done"
    /\ listener["r2"] = "idle"
    /\ fileStage["r2"] = "forwarding"
    /\ DOMAIN unlinks = TmpFilesOf("r1")
    /\ Cardinality(TmpFilesOf("r1")) = 2
    /\ TmpFilesOf("r2") \subseteq tmpFiles

====
